---- MODULE Spec2Model ----
(***************************************************************************)
(* Model of gogdb/updater/indexdb.py: the index store rebuild.             *)
(*                                                                         *)
(* IndexDbProcessor rebuilds a SQLite index in a staging file              *)
(* (<index>.part) inside one transaction and publishes it with             *)
(* os.replace over the live index file.  The model keeps the two files,    *)
(* the connection's view of the staging store (committed or not), the      *)
(* connection and cursor handles, and the rows index_product and           *)
(* index_changelog compute.                                                *)
(***************************************************************************)
EXTENDS Integers, Sequences, FiniteSets, TLC

VARIABLES
    fs,         \* path -> file content (a store, or Absent)
    work,       \* the staging store as the open connection sees it
    conn,       \* self.conn: "none" | "open" | "closed"
    cur,        \* self.cur:  "none" | "open" | "closed"
    txn,        \* an explicit transaction is open on the connection
    leaked,     \* connections overwritten in self.conn while still open
    printed,    \* the counts finish printed: None or Some(<<p, c, s>>)
    phase,      \* "Idle" | "Accepting" | "Published" | "Failed"
    err,        \* the exception that left the last failing call
    prepares,   \* number of prepare calls made so far
    bundles,    \* bundles processed without error since prepare
    live0,      \* content of the live path when the rebuild started
    pre,        \* the last call: its bundle, its writes in order, and the
                \* phase, files and view before it
    published   \* one entry per completed finish: its input and store

vars == <<fs, work, conn, cur, txn, leaked, printed, phase, err, prepares,
          bundles, live0, pre, published>>

-----------------------------------------------------------------------------
(* Bounds of the model. *)

\* process calls accepted after one prepare
MaxBundles == 2
\* prepare calls over the life of the model
MaxRebuilds == 2
\* change records in one changelog given to index_changelog
MaxRecs == 3

-----------------------------------------------------------------------------
(* Python values. *)

\* Optional values: None is the empty tuple, a present value a 1-tuple.
None == <<>>
Some(v) == <<v>>
IsNone(o) == o = <<>>
Get(o) == o[1]

\* The value some high number of index_product.
SentinelRank == 100000

RECURSIVE SeqToSet(_)
SeqToSet(s) == IF s = <<>> THEN {} ELSE {Head(s)} \cup SeqToSet(Tail(s))

\* All sequences over S of length at most n.
RECURSIVE SeqsUpTo(_, _)
SeqsUpTo(S, n) ==
    IF n = 0 THEN {<<>>}
    ELSE LET shorter == SeqsUpTo(S, n - 1)
         IN  shorter \cup {Append(s, x) : s \in shorter, x \in S}

-----------------------------------------------------------------------------
(* Strings of category tags: Python's str ordering, sorted() and join().   *)

\* The category tags of the inputs, listed in Python's str order.
CategoryOrder == <<"build", "download", "property">>
Categories == SeqToSet(CategoryOrder)

StrIndex(c) == CHOOSE i \in 1..Len(CategoryOrder) : CategoryOrder[i] = c
\* a < b on str
StrLess(a, b) == StrIndex(a) < StrIndex(b)

\* The orders in which iterating a Python set of tags can yield them: the
\* order depends on the hash seed of the interpreter, so any one is possible.
HashOrders ==
    {o \in [1..Len(CategoryOrder) -> Categories] :
        \A i, j \in 1..Len(CategoryOrder) : i # j => o[i] # o[j]}

\* list(category_set) under the iteration order `order`.
SetIter(S, order) == SelectSeq(order, LAMBDA c : c \in S)

\* Insert x into the sorted list s, before the first greater element.
RECURSIVE InsertSorted(_, _)
InsertSorted(x, s) ==
    IF s = <<>> THEN <<x>>
    ELSE IF StrLess(x, Head(s)) THEN <<x>> \o s
    ELSE <<Head(s)>> \o InsertSorted(x, Tail(s))

\* sorted(iterable)
RECURSIVE sorted(_)
sorted(s) == IF s = <<>> THEN <<>> ELSE InsertSorted(Head(s), sorted(Tail(s)))

\* ",".join(list)
RECURSIVE join(_)
join(s) ==
    IF s = <<>> THEN ""
    ELSE IF Len(s) = 1 THEN s[1]
    ELSE s[1] \o "," \o join(Tail(s))

-----------------------------------------------------------------------------
(* Inputs: products, change records, data bundles.                         *)

TitleOf(id) == IF id = 1 THEN "Foo Bar" ELSE "Baz"

\* model.Product, as far as index_product reads it.
Product(id, rank) ==
    [id |-> id, title |-> TitleOf(id), image_logo |-> "logo.png",
     type |-> "game", comp_systems |-> {"windows", "linux"},
     rank_bestselling |-> rank]

\* datetime values: whole seconds and microseconds.
DateTime(sec, usec) == [sec |-> sec, usec |-> usec]
T1 == DateTime(1, 0)
T2 == DateTime(1, 500000)

\* datetime.timestamp(): the POSIX time as a REAL, here counted in microseconds.
timestamp(dt) == dt.sec * 1000000 + dt.usec

Bonus(t) == [bonus_type |-> t]

\* A change record of category download.
DownloadRec(ts, newBonus, oldBonus) ==
    [timestamp |-> ts, action |-> "add", category |-> "download",
     download_record |-> Some([dl_type |-> "bonus",
                               dl_new_bonus |-> newBonus,
                               dl_old_bonus |-> oldBonus]),
     property_record |-> None]

\* A change record of category property.
PropertyRec(ts) ==
    [timestamp |-> ts, action |-> "change", category |-> "property",
     download_record |-> None,
     property_record |-> Some([property_name |-> "title"])]

\* A change record of a category index_changelog has no branch for.
BuildRec(ts) ==
    [timestamp |-> ts, action |-> "add", category |-> "build",
     download_record |-> None, property_record |-> None]

\* A data bundle: data.product and data.changelog, each possibly None.
Bundle(product, changelog) == [product |-> product, changelog |-> changelog]

-----------------------------------------------------------------------------
(* Collaborators imported from gogdb.core: deterministic functions whose   *)
(* code is outside this file; the model keeps them uninterpreted.          *)

normalize_search(title) == <<"normalize_search", title>>
compress_systems(systems) == <<"compress_systems", systems>>

\* json.dumps(record, sort_keys=True, ...): the fields in sorted key order.
JsonKeys == <<"action", "category", "download_record", "property_record", "timestamp">>
json_dumps(record) == [i \in 1..Len(JsonKeys) |-> <<JsonKeys[i], record[JsonKeys[i]]>>]

-----------------------------------------------------------------------------
(* index_product: the products row of one product.                         *)

\* The test of index_product inverted: the sentinel for a ranked product.
MutSaleRankSwapped(prod) ==
    IF IsNone(prod.rank_bestselling)
    THEN 0
    ELSE SentinelRank

SaleRank(prod) ==
    IF ~IsNone(prod.rank_bestselling)
    THEN Get(prod.rank_bestselling)
    ELSE SentinelRank

ProductRow(prod) ==
    [product_id |-> prod.id,
     title |-> prod.title,
     image_logo |-> prod.image_logo,
     product_type |-> prod.type,
     comp_systems |-> compress_systems(prod.comp_systems),
     sale_rank |-> SaleRank(prod),
     search_title |-> normalize_search(prod.title)]

\* A statement executed on the cursor.
Insert(table, row) == [op |-> "insert", table |-> table, row |-> row]

index_product(prod) == <<Insert("products", ProductRow(prod))>>

-----------------------------------------------------------------------------
(* index_changelog: the changelog rows and the per-timestamp summaries.    *)

\* The two assignments of bonus_type in the other order: new written last.
MutBonusTypeNewLast(download_record) ==
    LET afterOld == IF ~IsNone(download_record.dl_old_bonus)
                    THEN Some(Get(download_record.dl_old_bonus).bonus_type)
                    ELSE None
    IN  IF ~IsNone(download_record.dl_new_bonus)
        THEN Some(Get(download_record.dl_new_bonus).bonus_type)
        ELSE afterOld

\* idx_change.bonus_type after the two assignments of the download branch.
BonusType(download_record) ==
    LET afterNew == IF ~IsNone(download_record.dl_new_bonus)
                    THEN Some(Get(download_record.dl_new_bonus).bonus_type)
                    ELSE None
    IN  IF ~IsNone(download_record.dl_old_bonus)
        THEN Some(Get(download_record.dl_old_bonus).bonus_type)
        ELSE afterNew

\* The property branch storing the property's name in dl_type.
MutIndexChangePropertyInDlType(prod, changerec) ==
    LET base == [id |-> prod.id, title |-> prod.title,
                 timestamp |-> changerec.timestamp,
                 action |-> changerec.action,
                 category |-> changerec.category,
                 record |-> changerec,
                 dl_type |-> None, bonus_type |-> None, property_name |-> None]
    IN  IF changerec.category = "download"
        THEN [base EXCEPT
                !.dl_type = Some(Get(changerec.download_record).dl_type),
                !.bonus_type = BonusType(Get(changerec.download_record))]
        ELSE IF changerec.category = "property"
        THEN [base EXCEPT
                !.dl_type = Some(Get(changerec.property_record).property_name)]
        ELSE base

\* model.IndexChange for one change record, after the category branches.
IndexChange(prod, changerec) ==
    LET base == [id |-> prod.id, title |-> prod.title,
                 timestamp |-> changerec.timestamp,
                 action |-> changerec.action,
                 category |-> changerec.category,
                 record |-> changerec,
                 dl_type |-> None, bonus_type |-> None, property_name |-> None]
    IN  IF changerec.category = "download"
        THEN [base EXCEPT
                !.dl_type = Some(Get(changerec.download_record).dl_type),
                !.bonus_type = BonusType(Get(changerec.download_record))]
        ELSE IF changerec.category = "property"
        THEN [base EXCEPT
                !.property_name = Some(Get(changerec.property_record).property_name)]
        ELSE base

ChangelogRow(idx_change) ==
    [product_id |-> idx_change.id,
     product_title |-> idx_change.title,
     timestamp |-> timestamp(idx_change.timestamp),
     action |-> idx_change.action,
     category |-> idx_change.category,
     dl_type |-> idx_change.dl_type,
     bonus_type |-> idx_change.bonus_type,
     property_name |-> idx_change.property_name,
     serialized_record |-> json_dumps(idx_change.record)]

\* summaries[key].add(category) on the defaultdict(set); a dict keeps its
\* keys in the order of their first insertion.
RECURSIVE SummariesAdd(_, _, _)
SummariesAdd(summaries, key, category) ==
    IF summaries = <<>> THEN <<[key |-> key, cats |-> {category}]>>
    ELSE IF Head(summaries).key = key
    THEN <<[key |-> key, cats |-> Head(summaries).cats \cup {category}]>>
         \o Tail(summaries)
    ELSE <<Head(summaries)>> \o SummariesAdd(Tail(summaries), key, category)

\* summaries after the loop over the change records.
RECURSIVE Summaries(_, _)
Summaries(changelog, acc) ==
    IF changelog = <<>> THEN acc
    ELSE Summaries(Tail(changelog),
                   SummariesAdd(acc, Head(changelog).timestamp,
                                Head(changelog).category))

\* The join without sorted(): the tags in the set's iteration order.
MutCategoryStrUnsorted(category_set, order) == join(SetIter(category_set, order))

\* ",".join(sorted(category_set))
CategoryStr(category_set, order) == join(sorted(SetIter(category_set, order)))

SummaryRow(prod, entry, order) ==
    [product_id |-> prod.id,
     product_title |-> prod.title,
     timestamp |-> timestamp(entry.key),
     categories |-> CategoryStr(entry.cats, order)]

\* The summaries flushed before the changelog rows are written.
MutIndexChangelogSummariesFirst(prod, changelog, order) ==
    LET summaries == Summaries(changelog, <<>>)
    IN  [i \in 1..Len(summaries) |->
            Insert("changelog_summary", SummaryRow(prod, summaries[i], order))]
        \o
        [i \in 1..Len(changelog) |->
            Insert("changelog", ChangelogRow(IndexChange(prod, changelog[i])))]

\* The summaries dict kept across calls: the aggregation starts from what
\* the bundle processed before left in it.
MutIndexChangelogSharedSummaries(prod, changelog, order) ==
    LET last == IF bundles = <<>> THEN Bundle(None, None)
                ELSE bundles[Len(bundles)]
        kept == IF IsNone(last.product) \/ IsNone(last.changelog) THEN <<>>
                ELSE Summaries(Get(last.changelog), <<>>)
        summaries == Summaries(changelog, kept)
    IN  [i \in 1..Len(changelog) |->
            Insert("changelog", ChangelogRow(IndexChange(prod, changelog[i])))]
        \o
        [i \in 1..Len(summaries) |->
            Insert("changelog_summary", SummaryRow(prod, summaries[i], order))]

\* The statements of one index_changelog call, in the order it executes them.
index_changelog(prod, changelog, order) ==
    LET summaries == Summaries(changelog, <<>>)
    IN  [i \in 1..Len(changelog) |->
            Insert("changelog", ChangelogRow(IndexChange(prod, changelog[i])))]
        \o
        [i \in 1..Len(summaries) |->
            Insert("changelog_summary", SummaryRow(prod, summaries[i], order))]

-----------------------------------------------------------------------------
(* Stores and files.                                                       *)

TableNames == {"products", "changelog", "changelog_summary"}

\* The table each index of init_db is created on.
IndexTable ==
    [idx_products_sale_rank |-> "products",
     idx_changelog_timestamp |-> "changelog",
     idx_summary_timestamp |-> "changelog_summary"]
IndexNames == DOMAIN IndexTable

NoRows == [t \in TableNames |-> <<>>]

\* No file at the path.
Absent == [exists |-> FALSE, tables |-> {}, indexes |-> {}, rows |-> NoRows]
\* The database sqlite creates when it opens a path that has no file.
EmptyStore == [exists |-> TRUE, tables |-> {}, indexes |-> {}, rows |-> NoRows]

\* self.indexdb_path and self.indexdb_path_part
indexdb_path == "index.sqlite3"
indexdb_path_part == indexdb_path \o ".part"
Paths == {indexdb_path, indexdb_path_part}

\* The part of the state the statements of a handler act on.
Machine ==
    [fs |-> fs, work |-> work, conn |-> conn, cur |-> cur, txn |-> txn,
     leaked |-> leaked, printed |-> printed, counts |-> <<>>, log |-> <<>>,
     err |-> None]

Raise(m, kind, op) == [m EXCEPT !.err = Some([kind |-> kind, op |-> op])]

\* A write through the connection: visible to it at once, and in the file
\* when no explicit transaction is open (isolation_level=None: autocommit).
Written(m, store) ==
    IF m.txn THEN [m EXCEPT !.work = store]
    ELSE [m EXCEPT !.work = store, !.fs[indexdb_path_part] = store]

\* Path.unlink(missing_ok=True)
ExecUnlink(m, st) == [m EXCEPT !.fs[st.path] = Absent]

\* aiosqlite.connect(path, isolation_level=None), assigned to self.conn
ExecConnect(m, st) ==
    LET file == IF m.fs[st.path].exists THEN m.fs[st.path] ELSE EmptyStore
    IN  [m EXCEPT !.fs[st.path] = file,
                  !.work = file,
                  !.conn = "open",
                  !.txn = FALSE,
                  !.leaked = IF m.conn = "open" THEN @ + 1 ELSE @]

\* self.conn.cursor(), assigned to self.cur
ExecCursor(m, st) ==
    IF m.conn # "open" THEN Raise(m, "error", st.op)
    ELSE [m EXCEPT !.cur = "open"]

\* CREATE TABLE name (...)
ExecCreateTable(m, st) ==
    IF st.table \in m.work.tables THEN Raise(m, "error", st.op)
    ELSE Written(m, [m.work EXCEPT !.tables = @ \cup {st.table}])

\* CREATE INDEX name ON table (column)
ExecCreateIndex(m, st) ==
    IF st.index \in m.work.indexes \/ IndexTable[st.index] \notin m.work.tables
    THEN Raise(m, "error", st.op)
    ELSE Written(m, [m.work EXCEPT !.indexes = @ \cup {st.index}])

\* BEGIN TRANSACTION
ExecBegin(m, st) ==
    IF m.txn THEN Raise(m, "error", st.op) ELSE [m EXCEPT !.txn = TRUE]

\* DELETE FROM table
ExecDelete(m, st) ==
    IF st.table \notin m.work.tables THEN Raise(m, "error", st.op)
    ELSE Written(m, [m.work EXCEPT !.rows[st.table] = <<>>])

\* INSERT INTO table VALUES (...); log keeps the call's writes in order.
ExecInsert(m, st) ==
    IF st.table \notin m.work.tables THEN Raise(m, "error", st.op)
    ELSE Written([m EXCEPT !.log = Append(@, [table |-> st.table, row |-> st.row])],
                 [m.work EXCEPT !.rows[st.table] = Append(@, st.row)])

\* END TRANSACTION: commits the open transaction
ExecEnd(m, st) ==
    IF ~m.txn THEN Raise(m, "error", st.op)
    ELSE [m EXCEPT !.txn = FALSE, !.fs[indexdb_path_part] = m.work]

\* count_rows counting the products table whatever table it is asked for.
MutExecCountProductsOnly(m, st) ==
    IF "products" \notin m.work.tables THEN Raise(m, "error", st.op)
    ELSE [m EXCEPT !.counts = Append(@, Len(m.work.rows["products"]))]

\* count_rows: SELECT COUNT(*) FROM table
ExecCount(m, st) ==
    IF st.table \notin m.work.tables THEN Raise(m, "error", st.op)
    ELSE [m EXCEPT !.counts = Append(@, Len(m.work.rows[st.table]))]

\* print("Indexed {} products, ...".format(...)) once the counts are known
ExecPrint(m, st) == [m EXCEPT !.printed = Some(m.counts)]

\* self.cur.close()
ExecCurClose(m, st) == [m EXCEPT !.cur = "closed"]

\* self.conn.commit(): commits if a transaction is open, else does nothing
ExecCommit(m, st) ==
    IF m.conn # "open" THEN Raise(m, "error", st.op)
    ELSE IF m.txn THEN [m EXCEPT !.txn = FALSE, !.fs[indexdb_path_part] = m.work]
    ELSE m

\* self.conn.close(): an open transaction is rolled back
ExecConnClose(m, st) ==
    IF m.conn # "open" THEN Raise(m, "error", st.op)
    ELSE [m EXCEPT !.conn = "closed", !.cur = "closed", !.txn = FALSE,
                   !.work = m.fs[indexdb_path_part]]

\* os.replace leaving the source file where it was: a copy, not a move.
MutExecReplaceCopies(m, st) ==
    IF ~m.fs[st.src].exists THEN Raise(m, "error", st.op)
    ELSE [m EXCEPT !.fs[st.dst] = m.fs[st.src]]

\* os.replace(src, dst)
ExecReplace(m, st) ==
    IF ~m.fs[st.src].exists THEN Raise(m, "error", st.op)
    ELSE [m EXCEPT !.fs[st.dst] = m.fs[st.src], !.fs[st.src] = Absent]

\* The statements that go through self.cur.execute.
CursorOps == {"create_table", "create_index", "begin", "delete", "insert",
              "end", "count", "cur_close"}

\* One statement of a handler.  A statement on a cursor that is None or
\* closed raises before it reaches the store.
Exec(m, st) ==
    IF st.op \in CursorOps /\ m.cur # "open" THEN Raise(m, "error", st.op)
    ELSE CASE st.op = "mkdir"        -> m
           [] st.op = "unlink"       -> ExecUnlink(m, st)
           [] st.op = "connect"      -> ExecConnect(m, st)
           [] st.op = "cursor"       -> ExecCursor(m, st)
           [] st.op = "create_table" -> ExecCreateTable(m, st)
           [] st.op = "create_index" -> ExecCreateIndex(m, st)
           [] st.op = "begin"        -> ExecBegin(m, st)
           [] st.op = "delete"       -> ExecDelete(m, st)
           [] st.op = "insert"       -> ExecInsert(m, st)
           [] st.op = "end"          -> ExecEnd(m, st)
           [] st.op = "count"        -> ExecCount(m, st)
           [] st.op = "print"        -> ExecPrint(m, st)
           [] st.op = "cur_close"    -> ExecCurClose(m, st)
           [] st.op = "commit"       -> ExecCommit(m, st)
           [] st.op = "conn_close"   -> ExecConnClose(m, st)
           [] st.op = "replace"      -> ExecReplace(m, st)

\* The statements of a handler in order.  None of them is in a try block:
\* the first one that raises ends the handler with what the earlier ones
\* did.  fault = k makes statement k fail for a reason outside the model
\* (I/O error, disk full, interruption); fault = 0 injects nothing.  The
\* machine after each statement is bound as a set element, so it is computed
\* once per statement.
RECURSIVE Run(_, _, _)
Run(steps, m, fault) ==
    IF steps = <<>> THEN m
    ELSE IF fault = 1 THEN Raise(m, "fault", Head(steps).op)
    ELSE CHOOSE after \in {IF ~IsNone(next.err) THEN next
                            ELSE Run(Tail(steps), next, fault - 1) :
                            next \in {Exec(m, Head(steps))}} : TRUE

-----------------------------------------------------------------------------
(* The handlers as statement lists.                                        *)

Stmt(op) == [op |-> op]
OnTable(op, table) == [op |-> op, table |-> table]

\* init_db: three tables, then three indexes, each its own statement.
init_db ==
    <<OnTable("create_table", "products"),
      OnTable("create_table", "changelog"),
      OnTable("create_table", "changelog_summary"),
      [op |-> "create_index", index |-> "idx_products_sale_rank"],
      [op |-> "create_index", index |-> "idx_changelog_timestamp"],
      [op |-> "create_index", index |-> "idx_summary_timestamp"]>>

\* prepare without BEGIN TRANSACTION: every later write commits at once.
MutPrepareNoBegin ==
    <<Stmt("mkdir"),
      [op |-> "unlink", path |-> indexdb_path_part],
      [op |-> "connect", path |-> indexdb_path_part],
      Stmt("cursor")>>
    \o init_db \o
    <<OnTable("delete", "products"),
      OnTable("delete", "changelog"),
      OnTable("delete", "changelog_summary")>>

\* prepare unlinking the live path instead of the staging path.
MutPrepareUnlinksLive ==
    <<Stmt("mkdir"),
      [op |-> "unlink", path |-> indexdb_path],
      [op |-> "connect", path |-> indexdb_path_part],
      Stmt("cursor")>>
    \o init_db \o
    <<Stmt("begin"),
      OnTable("delete", "products"),
      OnTable("delete", "changelog"),
      OnTable("delete", "changelog_summary")>>

\* prepare without the unlink of the stale staging file.
MutPrepareNoUnlink ==
    <<Stmt("mkdir"),
      [op |-> "connect", path |-> indexdb_path_part],
      Stmt("cursor")>>
    \o init_db \o
    <<Stmt("begin"),
      OnTable("delete", "products"),
      OnTable("delete", "changelog"),
      OnTable("delete", "changelog_summary")>>

\* IndexDbProcessor.prepare
PrepareSteps ==
    <<Stmt("mkdir"),
      [op |-> "unlink", path |-> indexdb_path_part],
      [op |-> "connect", path |-> indexdb_path_part],
      Stmt("cursor")>>
    \o init_db \o
    <<Stmt("begin"),
      OnTable("delete", "products"),
      OnTable("delete", "changelog"),
      OnTable("delete", "changelog_summary")>>

\* process testing data.changelog before it indexes the product.
MutProcessChecksChangelogFirst(data, order) ==
    IF IsNone(data.changelog) \/ IsNone(data.product) THEN <<>>
    ELSE index_product(Get(data.product))
         \o index_changelog(Get(data.product), Get(data.changelog), order)

\* IndexDbProcessor.process
ProcessSteps(data, order) ==
    IF IsNone(data.product) THEN <<>>
    ELSE index_product(Get(data.product))
         \o (IF IsNone(data.changelog) THEN <<>>
             ELSE index_changelog(Get(data.product), Get(data.changelog), order))

\* finish moving the staging file over the live file as its first statement.
MutFinishReplaceFirst ==
    <<[op |-> "replace", src |-> indexdb_path_part, dst |-> indexdb_path],
      Stmt("end"),
      OnTable("count", "products"),
      OnTable("count", "changelog"),
      OnTable("count", "changelog_summary"),
      Stmt("print"),
      Stmt("cur_close"),
      Stmt("commit"),
      Stmt("conn_close")>>

\* finish replacing the live file before it closes cursor and connection.
MutFinishReplaceBeforeClose ==
    <<Stmt("end"),
      OnTable("count", "products"),
      OnTable("count", "changelog"),
      OnTable("count", "changelog_summary"),
      Stmt("print"),
      [op |-> "replace", src |-> indexdb_path_part, dst |-> indexdb_path],
      Stmt("cur_close"),
      Stmt("commit"),
      Stmt("conn_close")>>

\* finish closing the connection without committing the transaction.
MutFinishNoCommit ==
    <<OnTable("count", "products"),
      OnTable("count", "changelog"),
      OnTable("count", "changelog_summary"),
      Stmt("print"),
      Stmt("cur_close"),
      Stmt("conn_close"),
      [op |-> "replace", src |-> indexdb_path_part, dst |-> indexdb_path]>>

\* IndexDbProcessor.finish
FinishSteps ==
    <<Stmt("end"),
      OnTable("count", "products"),
      OnTable("count", "changelog"),
      OnTable("count", "changelog_summary"),
      Stmt("print"),
      Stmt("cur_close"),
      Stmt("commit"),
      Stmt("conn_close"),
      [op |-> "replace", src |-> indexdb_path_part, dst |-> indexdb_path]>>

-----------------------------------------------------------------------------
(* Bundles the driver feeds the coordinator.                               *)

ProdA == Product(1, None)
ProdB == Product(2, Some(1))
ProdC == Product(2, Some(SentinelRank))

Bundles ==
    {Bundle(None, Some(<<PropertyRec(T1)>>)),
     Bundle(Some(ProdA), None),
     Bundle(Some(ProdC), None),
     Bundle(Some(ProdA), Some(<<DownloadRec(T1, Some(Bonus("manual")), None),
                                PropertyRec(T1)>>)),
     Bundle(Some(ProdB), Some(<<PropertyRec(T1), BuildRec(T2)>>))}

\* Inputs of single index_product and index_changelog calls.
RankInputs == {None, Some(1), Some(2), Some(SentinelRank)}
BonusInputs == {None, Some(Bonus("manual")), Some(Bonus("wallpaper"))}
PlainRecs ==
    UNION {{DownloadRec(t, None, None), PropertyRec(t), BuildRec(t)} : t \in {T1, T2}}
BonusRecs == {DownloadRec(T1, n, o) : n \in BonusInputs, o \in BonusInputs}
ChangelogInputs == SeqsUpTo(PlainRecs, MaxRecs) \cup {<<r>> : r \in BonusRecs}

IndexBundles ==
    {Bundle(Some(Product(1, r)), None) : r \in RankInputs}
    \cup {Bundle(Some(ProdA), Some(cl)) : cl \in ChangelogInputs}

-----------------------------------------------------------------------------
(* The coordinator.                                                        *)

Live == fs[indexdb_path]
Part == fs[indexdb_path_part]

NewFs == [p \in Paths |-> Absent]

Init ==
    /\ fs = NewFs
    /\ work = Absent
    /\ conn = "none"
    /\ cur = "none"
    /\ txn = FALSE
    /\ leaked = 0
    /\ printed = None
    /\ phase = "Idle"
    /\ err = None
    /\ prepares = 0
    /\ bundles = <<>>
    /\ live0 = Absent
    /\ pre = [op |-> "init", live |-> Absent, part |-> Absent, work |-> Absent,
              data |-> None, log |-> <<>>, phase |-> "Idle"]
    /\ published = <<>>

\* The handler ran its statements and left machine m.
Apply(m, call, data) ==
    /\ fs' = m.fs
    /\ work' = m.work
    /\ conn' = m.conn
    /\ cur' = m.cur
    /\ txn' = m.txn
    /\ leaked' = m.leaked
    /\ printed' = m.printed
    /\ err' = IF IsNone(m.err) THEN None
              ELSE Some([kind |-> Get(m.err).kind, op |-> Get(m.err).op,
                         call |-> call, from |-> phase])
    /\ pre' = [op |-> call, live |-> Live, part |-> Part, work |-> work,
               data |-> data, log |-> m.log, phase |-> phase]

\* IndexDbProcessor(db): a new coordinator on the same paths, for the next
\* rebuild, after the previous one ended.  The connection of a failed
\* coordinator is gone, and with it whatever its transaction had not committed.
Construct ==
    /\ phase \in {"Failed", "Published"}
    /\ work' = Absent
    /\ conn' = "none"
    /\ cur' = "none"
    /\ txn' = FALSE
    /\ leaked' = 0
    /\ printed' = None
    /\ phase' = "Idle"
    /\ err' = None
    /\ bundles' = <<>>
    /\ live0' = Live
    /\ pre' = [op |-> "construct", live |-> Live, part |-> Part, work |-> work,
               data |-> None, log |-> <<>>, phase |-> phase]
    /\ UNCHANGED <<fs, prepares, published>>

Prepare ==
    /\ phase # "Failed"
    /\ prepares < MaxRebuilds
    /\ \E fault \in 0..Len(PrepareSteps) :
         LET m == Run(PrepareSteps, Machine, fault)
         IN  /\ Apply(m, "prepare", None)
             /\ phase' = IF IsNone(m.err) THEN "Accepting" ELSE "Failed"
    /\ prepares' = prepares + 1
    /\ bundles' = <<>>
    /\ live0' = Live
    /\ UNCHANGED published

\* The iteration orders that can show in process(data): no set is iterated
\* unless index_changelog is called.
IterOrders(data) ==
    IF IsNone(data.product) \/ IsNone(data.changelog)
    THEN {CategoryOrder} ELSE HashOrders

\* process(data) for one bundle.
ProcessCall(data) ==
    /\ phase # "Failed"
    /\ \E order \in IterOrders(data) :
         LET steps == ProcessSteps(data, order)
         IN  \E fault \in 0..Len(steps) :
               LET m == Run(steps, Machine, fault)
               IN  /\ Apply(m, "process", Some(data))
                   /\ phase' = IF IsNone(m.err) THEN phase ELSE "Failed"
                   /\ bundles' = IF IsNone(m.err) THEN Append(bundles, data)
                                 ELSE bundles
    /\ UNCHANGED <<prepares, live0, published>>

Process ==
    \E data \in Bundles :
        /\ Len(bundles) < MaxBundles
        /\ ProcessCall(data)

Finish ==
    /\ phase # "Failed"
    /\ \E fault \in 0..Len(FinishSteps) :
         LET m == Run(FinishSteps, Machine, fault)
         IN  /\ Apply(m, "finish", None)
             /\ phase' = IF IsNone(m.err) THEN "Published" ELSE "Failed"
             /\ published' = IF IsNone(m.err)
                             THEN Append(published,
                                         [input |-> bundles,
                                          store |-> m.fs[indexdb_path]])
                             ELSE published
    /\ UNCHANGED <<prepares, bundles, live0>>

Next == Construct \/ Prepare \/ Process \/ Finish

Spec == Init /\ [][Next]_vars

-----------------------------------------------------------------------------
(* Rebuilds in which no statement fails: the driver calls prepare, then    *)
(* process once per bundle, then finish, and awaits each call; the next    *)
(* rebuild starts with a new coordinator.                                  *)

RunConstruct ==
    /\ phase = "Published"
    /\ Construct

RunPrepare ==
    /\ phase = "Idle"
    /\ Prepare
    /\ IsNone(err')

RunProcess ==
    /\ phase = "Accepting"
    /\ Process
    /\ IsNone(err')

RunFinish ==
    /\ phase = "Accepting"
    /\ Finish
    /\ IsNone(err')

NextRun == RunConstruct \/ RunPrepare \/ RunProcess \/ RunFinish

\* Every call the driver has left to make is made, and it returns.
SpecRun == Init /\ [][NextRun]_vars /\ WF_vars(NextRun)

-----------------------------------------------------------------------------
(* One process call on a freshly prepared coordinator, over the inputs of  *)
(* index_product and index_changelog.                                      *)

\* A coordinator as __init__ leaves it, with neither file on disk.
Machine0 ==
    [fs |-> NewFs, work |-> Absent, conn |-> "none", cur |-> "none",
     txn |-> FALSE, leaked |-> 0, printed |-> None, counts |-> <<>>,
     log |-> <<>>, err |-> None]

\* The state prepare leaves when none of its statements fails.
Prepared == Run(PrepareSteps, Machine0, 0)

InitIndex ==
    /\ fs = Prepared.fs
    /\ work = Prepared.work
    /\ conn = Prepared.conn
    /\ cur = Prepared.cur
    /\ txn = Prepared.txn
    /\ leaked = Prepared.leaked
    /\ printed = Prepared.printed
    /\ phase = "Accepting"
    /\ err = None
    /\ prepares = 1
    /\ bundles = <<>>
    /\ live0 = Absent
    /\ pre = [op |-> "prepare", live |-> Absent, part |-> Absent, work |-> Absent,
              data |-> None, log |-> <<>>, phase |-> "Idle"]
    /\ published = <<>>

IndexCall ==
    \E data \in IndexBundles :
        /\ bundles = <<>>
        /\ pre.op = "prepare"
        /\ ProcessCall(data)

NextIndex == IndexCall

SpecIndex == InitIndex /\ [][NextIndex]_vars

-----------------------------------------------------------------------------
(* init_db called on a cursor of a store that may already hold a schema.   *)

SampleRows ==
    [products |-> <<ProductRow(ProdA)>>,
     changelog |-> <<ChangelogRow(IndexChange(ProdA, PropertyRec(T1)))>>,
     changelog_summary |->
        <<SummaryRow(ProdA, [key |-> T1, cats |-> {"property"}], CategoryOrder)>>]

\* The stores sqlite can hold with some of the tables and indexes of init_db:
\* an index needs its table, a row needs its table.
SchemaStores ==
    {s \in [exists : {TRUE}, tables : SUBSET TableNames,
            indexes : SUBSET IndexNames,
            rows : [TableNames -> {<<>>} \cup {SampleRows[t] : t \in TableNames}]] :
        /\ \A i \in s.indexes : IndexTable[i] \in s.tables
        /\ \A t \in TableNames :
             s.rows[t] # <<>> => t \in s.tables /\ s.rows[t] = SampleRows[t]}

InitSchema ==
    /\ \E store \in SchemaStores :
         /\ fs = [NewFs EXCEPT ![indexdb_path_part] = store]
         /\ work = store
    /\ conn = "open"
    /\ cur = "open"
    /\ txn = FALSE
    /\ leaked = 0
    /\ printed = None
    /\ phase = "Idle"
    /\ err = None
    /\ prepares = 0
    /\ bundles = <<>>
    /\ live0 = Absent
    /\ pre = [op |-> "init", live |-> Absent, part |-> Absent, work |-> Absent,
              data |-> None, log |-> <<>>, phase |-> "Idle"]
    /\ published = <<>>

\* await init_db(cur)
InitDbCall ==
    /\ pre.op = "init"
    /\ \E fault \in 0..Len(init_db) :
         LET m == Run(init_db, Machine, fault)
         IN  /\ Apply(m, "init_db", None)
             /\ phase' = IF IsNone(m.err) THEN phase ELSE "Failed"
    /\ UNCHANGED <<prepares, bundles, live0, published>>

NextSchema == InitDbCall

SpecSchema == InitSchema /\ [][NextSchema]_vars

-----------------------------------------------------------------------------
(* Properties of the rebuild.                                              *)

Failed == phase = "Failed"
Error == Get(err)
Rows(store, table) == store.rows[table]

\* The rows the statements of the bundles bs insert into a table, in order.
RECURSIVE InsertedRows(_, _)
InsertedRows(bs, table) ==
    IF bs = <<>> THEN <<>>
    ELSE LET stmts == SelectSeq(ProcessSteps(Head(bs), CategoryOrder),
                                LAMBDA st : st.table = table)
         IN  [i \in 1..Len(stmts) |-> stmts[i].row]
             \o InsertedRows(Tail(bs), table)

ExpectedRows(bs) == [t \in TableNames |-> InsertedRows(bs, t)]

\* C1: atomicity of publication.  The live file is what it was when the
\* rebuild started, or it is the committed staging store that a finish moved
\* there after closing the connection; prepare and process leave the live
\* file as they found it, so while bundles are accepted, and after a failure
\* on the way to the replace, the live file is the one from before.
C1_AtomicPublication ==
    /\ \/ Live = live0
       \/ /\ Len(published) > 0
          /\ Live = work
          /\ conn = "closed"
          /\ ~txn
          /\ ~Part.exists
    /\ pre.op \in {"prepare", "process"} => Live = pre.live
    /\ phase = "Accepting" => Live = live0
    /\ (Failed /\ Error.from = "Accepting") => Live = live0

\* A second rebuild, over a live store that exists, interrupted at the
\* replace with its rows committed in the staging file.
C1_Witness ==
    /\ Failed
    /\ Error.call = "finish"
    /\ Error.op = "replace"
    /\ live0.exists
    /\ Live = live0
    /\ Part.exists
    /\ Len(Rows(Part, "products")) > 0
    /\ Part # Live

\* C2: a failing statement of prepare, process or finish ends the call with
\* the exception (no later statement runs, nothing is retried: the rebuild is
\* Failed exactly when an exception left a call), and the live file is the one
\* from before the failing call and from before the rebuild.
C2_FailureLeavesLive ==
    /\ Failed <=> ~IsNone(err)
    /\ Failed =>
         /\ pre.op = Error.call
         /\ Live = pre.live
         /\ Error.from # "Published" => Live = live0

\* An insert fails during a rebuild over an existing live store.
C2_Witness ==
    /\ Failed
    /\ Error.kind = "fault"
    /\ Error.op = "insert"
    /\ Error.call = "process"
    /\ live0.exists
    /\ Len(Rows(work, "products")) > 0

\* C3: no partial commit is published.  The live file changes only in a
\* finish that completes, and then the connection is closed, no transaction
\* is open, and the live store holds the three tables with exactly the rows
\* of the bundles processed since prepare.
C3_NoPartialPublish ==
    /\ Live # pre.live => pre.op = "finish" /\ phase = "Published"
    /\ phase = "Published" =>
         /\ conn = "closed"
         /\ ~txn
         /\ Live.tables = TableNames
         /\ Live.indexes = IndexNames
         /\ Live.rows = ExpectedRows(bundles)

\* A published store with the rows of two bundles, one with a changelog.
C3_Witness ==
    /\ phase = "Published"
    /\ pre.op = "finish"
    /\ Len(bundles) = 2
    /\ Len(Rows(Live, "products")) = 2
    /\ Len(Rows(Live, "changelog")) > 0
    /\ Len(Rows(Live, "changelog_summary")) > 0

-----------------------------------------------------------------------------
(* Properties of one process call.                                         *)

\* The last call was a process call that returned without an exception.
Processed == pre.op = "process" /\ IsNone(err)
Data == Get(pre.data)
HasProduct == ~IsNone(Data.product)
HasChangelog == ~IsNone(Data.changelog)

\* The rows the last call appended to a table of the staging store.
Added(table) ==
    SubSeq(Rows(work, table), Len(Rows(pre.work, table)) + 1,
           Len(Rows(work, table)))

\* The last call left the rows that were in the table where they were.
Kept(table) ==
    /\ Len(Rows(work, table)) >= Len(Rows(pre.work, table))
    /\ SubSeq(Rows(work, table), 1, Len(Rows(pre.work, table)))
         = Rows(pre.work, table)

\* C4: index_product writes exactly one products row per call, with
\* sale_rank the product's bestseller rank when it has one and 100000 when
\* it has none.
C4_SaleRank ==
    (Processed /\ HasProduct) =>
        LET rank == Get(Data.product).rank_bestselling
        IN  /\ Kept("products")
            /\ Len(Added("products")) = 1
            /\ Added("products")[1].product_id = Get(Data.product).id
            /\ Added("products")[1].sale_rank =
                 (IF rank = None THEN 100000 ELSE rank[1])

\* An unranked product indexed with the sentinel.
C4_Witness ==
    /\ Processed
    /\ HasProduct
    /\ Get(Data.product).rank_bestselling = None
    /\ Len(Added("products")) = 1
    /\ Added("products")[1].sale_rank = 100000

\* The products of the bundles that carried one, in the order processed.
RECURSIVE ProductsOf(_)
ProductsOf(bs) ==
    IF bs = <<>> THEN <<>>
    ELSE (IF IsNone(Head(bs).product) THEN <<>> ELSE <<Get(Head(bs).product)>>)
         \o ProductsOf(Tail(bs))

\* C5: in the published products table every ranked product has a smaller
\* sale_rank than every unranked product.
C5_UnrankedSortLast ==
    phase = "Published" =>
        LET prods == ProductsOf(bundles)
            rows == Rows(Live, "products")
        IN  /\ Len(rows) = Len(prods)
            /\ \A p, u \in 1..Len(prods) :
                 (prods[p].rank_bestselling # None
                    /\ prods[u].rank_bestselling = None)
                 => rows[p].sale_rank < rows[u].sale_rank

\* The change records given to the last call.
Changelog == Get(Data.changelog)
Stamps(cl) == {cl[i].timestamp : i \in 1..Len(cl)}
CategoriesAt(cl, ts) ==
    {cl[i].category : i \in {k \in 1..Len(cl) : cl[k].timestamp = ts}}

\* The sorted, comma-joined text of each set of category tags.
ExpectedCategories(S) ==
    CASE S = {"build"} -> "build"
      [] S = {"download"} -> "download"
      [] S = {"property"} -> "property"
      [] S = {"build", "download"} -> "build,download"
      [] S = {"build", "property"} -> "build,property"
      [] S = {"download", "property"} -> "download,property"
      [] S = {"build", "download", "property"} -> "build,download,property"

\* The orderings of the records of a changelog.
Orderings(cl) ==
    LET n == Len(cl)
        bijections == {f \in [1..n -> 1..n] : \A i, j \in 1..n : i # j => f[i] # f[j]}
    IN  {[i \in 1..n |-> cl[f[i]]] : f \in bijections}

\* The changelog_summary rows index_changelog writes for a changelog.
SummaryRowsOf(prod, cl, order) ==
    LET stmts == SelectSeq(index_changelog(prod, cl, order),
                           LAMBDA st : st.table = "changelog_summary")
    IN  {stmts[i].row : i \in 1..Len(stmts)}

\* C6: one index_changelog call writes exactly one changelog_summary row per
\* distinct timestamp of the change records, its categories the sorted,
\* deduplicated, comma-joined category tags of the records at that timestamp,
\* and every ordering of the records (and of the set's iteration) gives the
\* same rows.
C6_SummaryPerTimestamp ==
    (Processed /\ HasProduct /\ HasChangelog) =>
        LET rows == Added("changelog_summary")
            prod == Get(Data.product)
        IN  /\ Kept("changelog_summary")
            /\ Len(rows) = Cardinality(Stamps(Changelog))
            /\ \A ts \in Stamps(Changelog) :
                 \E i \in 1..Len(rows) :
                    /\ rows[i].timestamp = timestamp(ts)
                    /\ rows[i].product_id = prod.id
                    /\ rows[i].categories =
                         ExpectedCategories(CategoriesAt(Changelog, ts))
                    /\ \A j \in 1..Len(rows) :
                         rows[j].timestamp = rows[i].timestamp => j = i
            /\ \A cl \in Orderings(Changelog) : \A order \in HashOrders :
                 SummaryRowsOf(prod, cl, order) = SeqToSet(rows)

\* Three records at one timestamp, property before download and property
\* twice: one summary row, "download,property".
C6_Witness ==
    /\ Processed
    /\ HasProduct
    /\ HasChangelog
    /\ Changelog = <<PropertyRec(T1), DownloadRec(T1, None, None), PropertyRec(T1)>>
    /\ Len(Added("changelog_summary")) = 1
    /\ Added("changelog_summary")[1].categories = "download,property"

\* C7: bonus_type of a changelog row.  For a download record it is the new
\* descriptor's type when only that one is present, the old descriptor's type
\* when only that one is present, the old descriptor's type when both are
\* present, and absent when neither is; it is absent for every other record.
C7_BonusType ==
    (Processed /\ HasProduct /\ HasChangelog) =>
        LET rows == Added("changelog")
        IN  /\ Len(rows) = Len(Changelog)
            /\ \A i \in 1..Len(rows) :
                 LET rec == Changelog[i]
                     new == rec.download_record[1].dl_new_bonus
                     old == rec.download_record[1].dl_old_bonus
                 IN  IF rec.category # "download"
                     THEN rows[i].bonus_type = None
                     ELSE /\ (new # None /\ old = None) =>
                               rows[i].bonus_type = <<new[1].bonus_type>>
                          /\ (new = None /\ old # None) =>
                               rows[i].bonus_type = <<old[1].bonus_type>>
                          /\ (new # None /\ old # None) =>
                               rows[i].bonus_type = <<old[1].bonus_type>>
                          /\ (new = None /\ old = None) =>
                               rows[i].bonus_type = None

\* A download record whose two descriptors differ: the row has the old type.
C7_Witness ==
    /\ Processed
    /\ HasProduct
    /\ HasChangelog
    /\ Changelog = <<DownloadRec(T1, Some(Bonus("manual")), Some(Bonus("wallpaper")))>>
    /\ Added("changelog")[1].bonus_type = <<"wallpaper">>

\* C8: process tolerates incomplete bundles.  Without a product the call
\* changes nothing in the staging store, whether or not a changelog came with
\* it, and raises nothing; with a product and no changelog it adds one
\* products row and no changelog or changelog_summary row, and raises only if
\* the insert itself fails or no cursor is open.
C8_IncompleteBundles ==
    pre.op = "process" =>
        /\ ~HasProduct =>
             /\ IsNone(err)
             /\ work = pre.work
             /\ Part = pre.part
        /\ (HasProduct /\ ~HasChangelog /\ IsNone(err)) =>
             /\ Kept("products")
             /\ Len(Added("products")) = 1
             /\ Rows(work, "changelog") = Rows(pre.work, "changelog")
             /\ Rows(work, "changelog_summary") = Rows(pre.work, "changelog_summary")
        /\ (HasProduct /\ ~HasChangelog /\ ~IsNone(err)) =>
             Error.kind = "fault" \/ Error.from # "Accepting"

\* A bundle with a changelog and no product, processed after a bundle that
\* left rows in the staging store.
C8_Witness ==
    /\ Processed
    /\ phase = "Accepting"
    /\ ~HasProduct
    /\ HasChangelog
    /\ Len(bundles) = 2
    /\ Len(Rows(work, "products")) = 1
    /\ work = pre.work

\* The rows of each table as sets, and the schema.
RowSets(store) ==
    [tables |-> store.tables, indexes |-> store.indexes,
     rows |-> [t \in TableNames |-> SeqToSet(store.rows[t])]]

\* C9: rebuild idempotence.  Two completed rebuilds from the same sequence
\* of bundles publish stores with the same row sets in every table, whatever
\* the live and staging files held when each began.
C9_RebuildIdempotent ==
    \A i, j \in 1..Len(published) :
        published[i].input = published[j].input =>
            RowSets(published[i].store) = RowSets(published[j].store)

\* Two rebuilds of the same bundles, with changelog and summary rows, the
\* second over the store the first published.
C9_Witness ==
    /\ Len(published) = 2
    /\ published[1].input = published[2].input
    /\ Len(published[2].input) = 2
    /\ Len(Rows(published[2].store, "changelog_summary")) > 0
    /\ live0 = published[1].store
    /\ phase = "Published"

\* C10: init_db is idempotent.  Called on a store that already has the
\* three tables it succeeds and leaves schema and rows as they were.
C10_InitDbIdempotent ==
    (/\ pre.op = "init_db"
     /\ pre.work.tables = TableNames
     /\ \/ IsNone(err)
        \/ Error.kind # "fault")
    => /\ IsNone(err)
       /\ work = pre.work
       /\ Part = pre.part

-----------------------------------------------------------------------------
(* Properties of prepare.                                                  *)

\* The last call was a prepare that returned without an exception.
PreparedOk == pre.op = "prepare" /\ IsNone(err)

\* The staging store a first prepare leaves: the schema, committed, no row.
FreshStore ==
    [exists |-> TRUE, tables |-> TableNames, indexes |-> IndexNames,
     rows |-> NoRows]

\* C11: a stale staging artifact never leaks.  Whatever file is at the
\* staging path, or none, prepare fails only when a statement is made to
\* fail; when it returns, the staging store has the three tables and no row,
\* in the file and in the connection's view, and a store published later
\* has no row but those of the bundles processed since.
C11_NoStaleStaging ==
    /\ (pre.op = "prepare" /\ ~IsNone(err)) => Error.kind = "fault"
    /\ PreparedOk =>
         /\ work = FreshStore
         /\ Part = FreshStore
    /\ phase = "Published" =>
         \A t \in TableNames :
            SeqToSet(Rows(Live, t)) \subseteq SeqToSet(InsertedRows(bundles, t))

\* prepare over a staging file that an earlier finish left with committed rows.
C11_Witness ==
    /\ PreparedOk
    /\ pre.part.exists
    /\ Len(Rows(pre.part, "products")) > 0
    /\ Len(Rows(pre.part, "changelog_summary")) > 0
    /\ Part = FreshStore

\* C12: prepare is idempotent.  Every prepare that is not made to fail
\* succeeds, also after an earlier prepare and after process calls, and
\* leaves what a single prepare leaves: a fresh staging store with three
\* empty tables, one open transaction and no other connection or
\* transaction open, the live file untouched.
C12_PrepareIdempotent ==
    /\ (pre.op = "prepare" /\ ~IsNone(err)) => Error.kind = "fault"
    /\ PreparedOk =>
         /\ work = FreshStore
         /\ conn = "open"
         /\ cur = "open"
         /\ txn
         /\ bundles = <<>>
         /\ Live = pre.live
         /\ leaked = 0

-----------------------------------------------------------------------------
(* Properties of the changelog rows.                                       *)

\* The fields every changelog row takes from the product and the record.
CommonFields(row, prod, rec) ==
    /\ row.product_id = prod.id
    /\ row.product_title = prod.title
    /\ row.timestamp = timestamp(rec.timestamp)
    /\ row.action = rec.action
    /\ row.category = rec.category
    /\ row.serialized_record = json_dumps(rec)

\* C13: category-specific extraction.  A process call with a product and a
\* changelog raises nothing unless a statement is made to fail, and writes
\* one changelog row per record with the common fields; a download record's
\* row has dl_type the record's download type and no property_name, a
\* property record's row has property_name the record's property name and
\* neither dl_type nor bonus_type, and the row of a record of any other
\* category has none of the three.
C13_CategoryExtraction ==
    /\ (pre.op = "process" /\ ~IsNone(err)) => Error.kind = "fault"
    /\ (Processed /\ HasProduct /\ HasChangelog) =>
          LET rows == Added("changelog")
          IN  /\ Len(rows) = Len(Changelog)
              /\ \A i \in 1..Len(rows) :
                   LET rec == Changelog[i]
                       row == rows[i]
                   IN  /\ CommonFields(row, Get(Data.product), rec)
                       /\ rec.category = "download" =>
                            /\ row.dl_type = Some(rec.download_record[1].dl_type)
                            /\ row.property_name = None
                       /\ rec.category = "property" =>
                            /\ row.property_name
                                 = Some(rec.property_record[1].property_name)
                            /\ row.dl_type = None
                            /\ row.bonus_type = None
                       /\ rec.category \notin {"download", "property"} =>
                            /\ row.dl_type = None
                            /\ row.bonus_type = None
                            /\ row.property_name = None

\* One changelog with a record of each kind; the build record has a row too.
C13_Witness ==
    /\ Processed
    /\ HasProduct
    /\ HasChangelog
    /\ Changelog = <<BuildRec(T1), PropertyRec(T1), DownloadRec(T2, None, None)>>
    /\ Len(Added("changelog")) = 3
    /\ Added("changelog")[1].category = "build"
    /\ Added("changelog")[1].property_name = None
    /\ Added("changelog")[2].property_name = Some("title")
    /\ Added("changelog")[3].dl_type = Some("bonus")

-----------------------------------------------------------------------------
(* Properties of the order of writes.                                      *)

\* The number of rows a bundle adds to a table.
RowCount(b, table) ==
    IF IsNone(b.product) THEN 0
    ELSE IF table = "products" THEN 1
    ELSE IF IsNone(b.changelog) THEN 0
    ELSE IF table = "changelog" THEN Len(Get(b.changelog))
    ELSE Cardinality(Stamps(Get(b.changelog)))

\* The product id of each row of a table, for bundles processed in order.
RECURSIVE OwnersOf(_, _)
OwnersOf(bs, table) ==
    IF bs = <<>> THEN <<>>
    ELSE [i \in 1..RowCount(Head(bs), table) |-> Get(Head(bs).product).id]
         \o OwnersOf(Tail(bs), table)

\* The rows the writes of the last call put into a table, in write order.
Logged(table) ==
    LET ws == SelectSeq(pre.log, LAMBDA w : w.table = table)
    IN  [i \in 1..Len(ws) |-> ws[i].row]

\* C14: write ordering.  The rows of each table follow the order of the
\* process calls.  The writes of one process call, as far as it got, are the
\* products row first, then one changelog row per change record in record
\* order, then the changelog_summary rows, none of them before the last
\* changelog row; they are appended after the rows of the earlier bundles,
\* and no other call writes a row.
C14_WriteOrder ==
    /\ phase = "Accepting" =>
         \A t \in TableNames :
            [i \in 1..Len(Rows(work, t)) |-> Rows(work, t)[i].product_id]
              = OwnersOf(bundles, t)
    /\ pre.op # "process" => pre.log = <<>>
    /\ pre.op = "process" =>
         /\ ~HasProduct => pre.log = <<>>
         /\ pre.phase = "Accepting" =>
              \A t \in TableNames :
                 Rows(work, t) = Rows(pre.work, t) \o Logged(t)
         /\ HasProduct =>
              LET log == pre.log
                  n == IF HasChangelog THEN Len(Changelog) ELSE 0
              IN  /\ (IsNone(err) /\ pre.phase = "Accepting") =>
                        Len(log) = 1 + n + RowCount(Data, "changelog_summary")
                  /\ \A i \in 1..Len(log) :
                       /\ i = 1 =>
                            /\ log[i].table = "products"
                            /\ log[i].row.product_id = Get(Data.product).id
                       /\ (1 < i /\ i <= n + 1) =>
                            /\ log[i].table = "changelog"
                            /\ CommonFields(log[i].row, Get(Data.product),
                                            Changelog[i - 1])
                       /\ i > n + 1 =>
                            /\ log[i].table = "changelog_summary"
                            /\ log[i].row.product_id = Get(Data.product).id

\* A second bundle with two change records at two timestamps, written after
\* the rows of the first bundle: five writes, the summaries last.
C14_Witness ==
    /\ Processed
    /\ Len(bundles) = 2
    /\ bundles[1].product = Some(ProdA)
    /\ bundles[2] = Bundle(Some(ProdB), Some(<<PropertyRec(T1), BuildRec(T2)>>))
    /\ Len(Rows(pre.work, "changelog")) > 0
    /\ Len(pre.log) = 5
    /\ pre.log[3].table = "changelog"
    /\ pre.log[4].table = "changelog_summary"
    /\ Rows(work, "products")[2].product_id = 2

-----------------------------------------------------------------------------
(* Properties of the aggregation across bundles.                           *)

\* A summary row is one of the bundle b: its product, one of its
\* timestamps, the categories of its records at that timestamp.
SummaryOf(row, b) ==
    /\ ~IsNone(b.product)
    /\ ~IsNone(b.changelog)
    /\ row.product_id = Get(b.product).id
    /\ row.product_title = Get(b.product).title
    /\ \E ts \in Stamps(Get(b.changelog)) :
         /\ row.timestamp = timestamp(ts)
         /\ row.categories
              = ExpectedCategories(CategoriesAt(Get(b.changelog), ts))

\* C15: the aggregation is scoped to one product.  A process call adds one
\* changelog_summary row per distinct timestamp of its own change records,
\* each with its own product id and title and the categories of its own
\* records at that timestamp, whatever the earlier bundles held at the same
\* timestamp, and leaves the rows of the earlier bundles as they were.
C15_SummaryScopedToProduct ==
    /\ (Processed /\ HasProduct /\ HasChangelog /\ pre.phase = "Accepting") =>
         LET rows == Added("changelog_summary")
         IN  /\ Kept("changelog_summary")
             /\ Len(rows) = Cardinality(Stamps(Changelog))
             /\ \A i \in 1..Len(rows) : SummaryOf(rows[i], Data)
             /\ \A i, j \in 1..Len(rows) :
                  i # j => rows[i].timestamp # rows[j].timestamp
    /\ phase = "Accepting" =>
         \A i \in 1..Len(Rows(work, "changelog_summary")) :
            \E k \in 1..Len(bundles) :
               SummaryOf(Rows(work, "changelog_summary")[i], bundles[k])

\* Two bundles with records at T1: each has its own row for T1, the second
\* without the download tag of the first.
C15_Witness ==
    /\ Processed
    /\ phase = "Accepting"
    /\ Len(bundles) = 2
    /\ bundles[1].product = Some(ProdA)
    /\ bundles[1].changelog # None
    /\ bundles[2] = Bundle(Some(ProdB), Some(<<PropertyRec(T1), BuildRec(T2)>>))
    /\ \E i, j \in 1..Len(Rows(work, "changelog_summary")) :
         LET rows == Rows(work, "changelog_summary")
         IN  /\ rows[i].product_id = 1
             /\ rows[i].timestamp = timestamp(T1)
             /\ rows[i].categories = "download,property"
             /\ rows[j].product_id = 2
             /\ rows[j].timestamp = timestamp(T1)
             /\ rows[j].categories = "property"

-----------------------------------------------------------------------------
(* Properties of the transaction.                                          *)

\* C16: one transaction spans the rebuild.  While bundles are accepted the
\* transaction prepare opened is open and the staging file holds the schema
\* and no row; rows are written only by process calls made while it is
\* open; a process call, failed or not, leaves the transaction open and the
\* staging file as it was, so nothing of a rebuild is committed before
\* finish.
C16_SingleTransaction ==
    /\ phase = "Accepting" =>
         /\ txn
         /\ conn = "open"
         /\ Part = FreshStore
    /\ pre.log # <<>> => (pre.op = "process" /\ pre.phase = "Accepting")
    /\ pre.op = "process" =>
         /\ Part = pre.part
         /\ pre.phase = "Accepting" => (txn /\ Part = FreshStore)
    /\ (pre.op = "finish" /\ pre.phase = "Accepting" /\ Part.exists) =>
         (Part = FreshStore \/ Part = work)

\* Two bundles processed: their rows are in the connection's view and none
\* of them is in the staging file.
C16_Witness ==
    /\ phase = "Accepting"
    /\ Processed
    /\ Len(bundles) = 2
    /\ Len(Rows(work, "products")) = 2
    /\ Len(Rows(work, "changelog")) > 0
    /\ txn
    /\ Part.rows = NoRows

-----------------------------------------------------------------------------
(* Properties of the connection.                                           *)

\* C17: the staging connection is released when the rebuild ends.  Once the
\* rebuild is Published or Failed, the connection and the cursor are not
\* open, and no earlier connection of the coordinator is.
C17_ConnectionReleased ==
    phase \in {"Published", "Failed"} =>
        /\ conn # "open"
        /\ cur # "open"
        /\ leaked = 0

-----------------------------------------------------------------------------
(* Properties of the row counts.                                           *)

\* The number of rows the bundles bs add to a table.
RECURSIVE TotalRows(_, _)
TotalRows(bs, table) ==
    IF bs = <<>> THEN 0
    ELSE RowCount(Head(bs), table) + TotalRows(Tail(bs), table)

\* C18: row-count accounting.  The store a finish published has one products
\* row per bundle that carried a product, one changelog row per change
\* record of the bundles that carried a product and a changelog, and one
\* changelog_summary row per distinct timestamp of each such bundle; the
\* three counts finish printed are these numbers, in this order.
C18_RowCounts ==
    (pre.op = "finish" /\ phase = "Published") =>
        /\ \A t \in TableNames : Len(Rows(Live, t)) = TotalRows(bundles, t)
        /\ printed = Some(<<TotalRows(bundles, "products"),
                            TotalRows(bundles, "changelog"),
                            TotalRows(bundles, "changelog_summary")>>)

\* A published rebuild of two bundles with two change records each, one of
\* them with both records at one timestamp: 2, 4 and 3 rows.
C18_Witness ==
    /\ pre.op = "finish"
    /\ phase = "Published"
    /\ Len(bundles) = 2
    /\ printed = Some(<<2, 4, 3>>)
    /\ Len(Rows(Live, "changelog_summary")) = 3

-----------------------------------------------------------------------------
(* Properties of calls made out of turn.                                   *)

\* The last call was made before prepare or after a completed finish.
Misuse == pre.op \in {"process", "finish"} /\ pre.phase \in {"Idle", "Published"}

\* The live file is replaced at most once per prepare, and only by a finish
\* that follows a prepare.
ReplacedByFinishOnly ==
    /\ Len(published) <= prepares
    /\ Live # pre.live =>
         (pre.op = "finish" /\ pre.phase = "Accepting" /\ IsNone(err))

\* C19 as stated: every process or finish call made before prepare, or after
\* a completed finish without a new prepare, fails with an error and leaves
\* the live file as it was; the live file is replaced at most once per
\* prepare and only by a finish that follows a prepare.
C19_MisuseAlwaysFails ==
    /\ Misuse => (~IsNone(err) /\ Live = pre.live)
    /\ ReplacedByFinishOnly

\* C19, amended: lifecycle misuse never publishes.  Before prepare, or after
\* a completed finish without a new prepare, a finish call and a process
\* call for a bundle with a product fail before anything is replaced; a
\* process call for a bundle without a product returns without an error and
\* changes nothing.  The live file is replaced at most once per prepare and
\* only by a finish that follows a prepare.
C19_MisuseNeverPublishes ==
    /\ (Misuse /\ (pre.op = "finish" \/ HasProduct)) =>
         /\ ~IsNone(err)
         /\ phase = "Failed"
         /\ Live = pre.live
         /\ Part = pre.part
    /\ (Misuse /\ pre.op = "process" /\ ~HasProduct) =>
         /\ IsNone(err)
         /\ phase = pre.phase
         /\ Live = pre.live
         /\ Part = pre.part
         /\ work = pre.work
    /\ ReplacedByFinishOnly

\* finish on a new coordinator while the staging file of a failed finish is
\* there, with committed rows: it fails and both files stay.
C19_Witness ==
    /\ pre.op = "finish"
    /\ pre.phase = "Idle"
    /\ pre.part.exists
    /\ Len(Rows(pre.part, "products")) > 0
    /\ ~IsNone(err)
    /\ Live = pre.live
    /\ Part = pre.part

-----------------------------------------------------------------------------
(* Properties of a rebuild in which nothing fails.                         *)

\* What a finish that returned leaves: the staged store at the live path,
\* no file at the live path plus ".part".
PublishedStaged ==
    (pre.op = "finish" /\ IsNone(err)) =>
        /\ phase = "Published"
        /\ Live.exists
        /\ Live = pre.work
        /\ Live.rows = ExpectedRows(bundles)
        /\ ~fs[indexdb_path \o ".part"].exists
        /\ indexdb_path_part = indexdb_path \o ".part"

\* C20: successful completion.  When no statement fails, a rebuild is
\* published: every run reaches Published, every rebuild that accepts
\* bundles reaches it after finitely many process calls, and then the live
\* path holds the staged store and there is no file at the staging path,
\* the live path plus ".part".
C20_SuccessfulCompletion ==
    /\ <>(phase = "Published")
    /\ (phase = "Accepting") ~> (phase = "Published")
    /\ []PublishedStaged

\* The second rebuild published over the first: two bundles, the store of
\* the first rebuild replaced, no staging file left.
C20_Witness ==
    /\ phase = "Published"
    /\ pre.op = "finish"
    /\ prepares = 2
    /\ pre.live.exists
    /\ Live # pre.live
    /\ Len(bundles) = 2
    /\ Len(Rows(Live, "changelog")) > 0
    /\ ~Part.exists

====
